---- MODULE Spec2Model ----
(***************************************************************************)
(* github-tag-teams (codekit/cli/github_tag_teams.py): tag the head of the *)
(* default branch of every repository of the requested teams of a GitHub   *)
(* organisation.  The model follows main() provider call by provider call: *)
(* each action is one call of the run against the provider, so that an     *)
(* external actor (another tagger, a push to the default branch) can act   *)
(* between any two calls.                                                  *)
(***************************************************************************)
EXTENDS Integers, Sequences, FiniteSets, TLC

(* ------------------------------ bounds --------------------------------- *)
\* longest --tag list given on the command line
MaxTags == 2
\* number of disturbances from outside the run: changes another actor makes
\* to the provider, and provider calls that fail
MaxDisturb == 1

(* --------------------------- provider data ----------------------------- *)
\* full names of the organisation's repositories
Repos == {"acme/widget", "acme/gadget"}

\* tag names, as lists of path segments ("a/b" is <<"a", "b">>)
TagNames == {<<"v1.0">>, <<"v1.1">>}

\* org.get_teams(): the teams of the organisation with team.get_repos()
OrgTeams ==
    << [name |-> "Core", repos |-> <<"acme/widget", "acme/gadget">>],
       [name |-> "Aux",  repos |-> <<"acme/gadget">>],
       [name |-> "Docs", repos |-> <<>>] >>

\* --team lists given on the command line
TeamRequests ==
    { <<"Ghost Team">>, <<"Core">>, <<"Docs">>, <<"Core", "Aux">> }

\* --tag lists given on the command line (argparse: required, append)
TagRequests == UNION { [1..n -> TagNames] : n \in 1..MaxTags }

\* commits the default branch can point at
OldCommit == "c0"
Commits == {"c1", "c2"}

\* the tagger of the run, github.InputGitAuthor(name, email, timestamp)
RunTagger == "tagger"

(* ------------------------------ helpers -------------------------------- *)
Range(s) == {s[i] : i \in 1..Len(s)}

RECURSIVE Flatten(_)
\* itertools.chain.from_iterable over a list of lists
Flatten(ss) == IF ss = <<>> THEN <<>> ELSE Head(ss) \o Flatten(Tail(ss))

\* a tag object that was not made by the run (older release, other tagger)
OtherTag(t) ==
    [tag |-> t, message |-> <<"external">>, object |-> OldCommit,
     type |-> "commit", tagger |-> "other"]

\* the git ref refs/tags/{t} pointing at object o
TagRef(t, o) == [ref |-> <<"refs", "tags">> \o t, sha |-> o]

\* Python None / a GitRef whose ref attribute is None
None == [ref |-> <<>>]

VARIABLES
    \* provider
    heads,          \* repo -> object of heads/{default_branch}
    tagobjs,        \* repo -> set of annotated tag objects
    tagrefs,        \* repo -> set of refs under refs/tags/
    \* command line
    args_team, args_tag, dry_run,
    \* the run
    pc, tag_teams, target_repos, cached_teams, untagged_repos,
    ri, ti, found_tags, head, tag_obj,
    \* observation of the run
    run, trace, lookups, faults, env, start

provider == <<heads, tagobjs, tagrefs>>
args == <<args_team, args_tag, dry_run>>
locals == <<tag_teams, target_repos, cached_teams, untagged_repos,
            ri, ti, found_tags, head, tag_obj>>
history == <<run, trace, lookups, faults, env, start>>
vars == <<provider, args, pc, locals, history>>

(* ------------------------- provider operations ------------------------- *)
\* outcomes of one provider call: it answers, or it fails with a
\* github.GithubException (401/403/5xx answered by the API), or with an
\* exception that is not a GithubException (socket, TLS)
Responses == {"ok", "GithubException", "OtherException"}

\* repo.get_git_ref(path): the ref refs/{path}, UnknownObjectException (a
\* GithubException, status 404) when there is none
GetGitRef(refs, path, resp) ==
    LET hit == {x \in refs : x.ref = <<"refs">> \o path}
    IN  IF resp # "ok" THEN [exc |-> resp, ref |-> None]
        ELSE IF hit = {} THEN [exc |-> "GithubException", ref |-> None]
        ELSE [exc |-> "none", ref |-> CHOOSE x \in hit : TRUE]

\* repo.create_git_ref(ref, sha) answers 422 when the ref exists already
RefExists(refs, path) == \E x \in refs : x.ref = path

(* ------------------------ github_tag_teams.py -------------------------- *)
\* faulty variant: the ref is asked for without the tags/ prefix
FindTagByNameNoPrefix(refs, tag_name, resp) ==
    LET got == GetGitRef(refs, tag_name, resp)
    IN  IF got.exc = "OtherException" THEN [exc |-> "OtherException", ref |-> None]
        ELSE IF got.exc = "none" /\ got.ref.ref # <<>>
             THEN [exc |-> "none", ref |-> got.ref]
        ELSE [exc |-> "none", ref |-> None]

\* find_tag_by_name: the ref, None when get_git_ref raised a
\* GithubException; any other exception leaves the function
FindTagByName(refs, tag_name, resp) ==
    LET tagfmt == <<"tags">> \o tag_name
        got == GetGitRef(refs, tagfmt, resp)
    IN  IF got.exc = "OtherException" THEN [exc |-> "OtherException", ref |-> None]
        ELSE IF got.exc = "none" /\ got.ref.ref # <<>>
             THEN [exc |-> "none", ref |-> got.ref]
        ELSE [exc |-> "none", ref |-> None]

\* faulty variant: the prefix is left on the name
StripRefsTagsKept(path) == path

\* re.sub(r'^refs/tags/', '', ref.ref)
StripRefsTags(path) ==
    IF Len(path) >= 2 /\ path[1] = "refs" /\ path[2] = "tags"
    THEN SubSeq(path, 3, Len(path))
    ELSE path

\* find_tags_in_repo, one turn of its loop: found_tags after the lookup of
\* one tag returned ref
FoundTagsAfter(found, ref) ==
    IF ref.ref # <<>> THEN Append(found, StripRefsTags(ref.ref)) ELSE found

\* faulty variant: the missing tags come out in the reverse of the caller's order
MissingTagsReversed(tags, has_tags) ==
    LET Missing(x) == x \notin Range(has_tags)
        m == SelectSeq(tags, Missing)
    IN  [i \in 1..Len(m) |-> m[Len(m) + 1 - i]]

\* missing_tags = [x for x in tags if x not in has_tags]
MissingTags(tags, has_tags) ==
    LET Missing(x) == x \notin Range(has_tags)
    IN  SelectSeq(tags, Missing)

\* need[r.full_name] = {'repo': r, 'need_tags': missing_tags}, a dict keeps
\* the position of a key that is assigned again
DictSet(d, k, v) ==
    [keys |-> IF k \in Range(d.keys) THEN d.keys ELSE Append(d.keys, k),
     need |-> [x \in Range(d.keys) \cup {k} |-> IF x = k THEN v ELSE d.need[x]]]

\* faulty variant: a repository with any of the tags counts as tagged
NeedAfterAnyFound(need, r, tags, has_tags) ==
    IF has_tags # <<>> THEN need ELSE DictSet(need, r, tags)

\* find_repos_missing_tags, the end of one turn of its loop
NeedAfter(need, r, tags, has_tags) ==
    LET missing_tags == MissingTags(tags, has_tags)
    IN  IF missing_tags # <<>> THEN DictSet(need, r, missing_tags) ELSE need

EmptyDict == [keys |-> <<>>, need |-> <<>>]

\* faulty variant: only the first requested name is compared
TagTeamsFirstOnly(teams, names) ==
    LET Wanted(t) == t.name = names[1]
    IN  SelectSeq(teams, Wanted)

\* faulty variant: every team is taken when no name matches
TagTeamsOrAll(teams, names) ==
    LET Wanted(t) == t.name \in Range(names)
    IN  IF SelectSeq(teams, Wanted) = <<>> THEN teams
        ELSE SelectSeq(teams, Wanted)

\* tag_teams = [t for t in teams if t.name in args.team]
TagTeams(teams, names) ==
    LET Wanted(t) == t.name \in Range(names)
    IN  SelectSeq(teams, Wanted)

\* list(itertools.chain.from_iterable(t.get_repos() for t in tag_teams))
TargetRepos(teams) == Flatten([i \in 1..Len(teams) |-> teams[i].repos])

\* repo.get_teams(): the names of the teams the repository belongs to
RepoTeams(r) ==
    LET Has(t) == r \in Range(t.repos)
        ts == SelectSeq(OrgTeams, Has)
    IN  [i \in 1..Len(ts) |-> ts[i].name]

\* find_repo_teams over the whole of target_repos: cached_teams afterwards
CachedTeams(repos) == [r \in Range(repos) |-> RepoTeams(r)]

\* repo.create_git_tag(t, "Version {t}", head.object.sha, head.object.type,
\* tagger): the tag object made, identified by its content
GitTag(t, h, tagger) ==
    [tag |-> t, message |-> <<"Version">> \o t, object |-> h.sha,
     type |-> h.type, tagger |-> tagger]

\* faulty variant: the dry-run flag is not looked at
NoopNever(dry) == FALSE

\* tag_repo: "if dry_run: debug('    (noop)'); continue"
Noop(dry) == dry

\* faulty variant: the tags are taken last first
TagsForReversed(d, k) ==
    [i \in 1..Len(d.need[k]) |-> d.need[k][Len(d.need[k]) + 1 - i]]

\* the tags tag_repo is called with (main: untagged_repos[k]['need_tags'])
TagsFor(d, k) == d.need[k]

\* the provider as it was when the run began, and how the run before ended
Snapshot(outcome, refs, objs, e, f) ==
    [prev |-> outcome, refs |-> refs, objs |-> objs, env |-> e, faults |-> f]

Terminal == {"done", "nothing_to_do", "no_teams", "error"}

NoHead == [sha |-> "none", type |-> "none"]
NoTag == GitTag(<<>>, NoHead, "none")

Init ==
    /\ heads = [r \in Repos |-> [sha |-> "c1", type |-> "commit"]]
    /\ tagrefs \in [Repos -> SUBSET {TagRef(t, OtherTag(t)) : t \in TagNames}]
    /\ tagobjs = [r \in Repos |-> {x.sha : x \in tagrefs[r]}]
    /\ args_team \in TeamRequests
    /\ args_tag \in TagRequests
    /\ dry_run \in BOOLEAN
    /\ pc = "get_teams"
    /\ tag_teams = <<>>
    /\ target_repos = <<>>
    /\ cached_teams = <<>>
    /\ untagged_repos = EmptyDict
    /\ ri = 1
    /\ ti = 1
    /\ found_tags = <<>>
    /\ head = NoHead
    /\ tag_obj = NoTag
    /\ run = "first"
    /\ trace = <<>>
    /\ lookups = <<>>
    /\ faults = 0
    /\ env = 0
    /\ start = Snapshot("none", tagrefs, tagobjs, 0, 0)

\* a provider call may fail while the budget of failures lasts
Fails(resp) ==
    /\ resp # "ok"
    /\ faults + env < MaxDisturb
    /\ faults' = faults + 1

Answers(resp) ==
    /\ resp = "ok"
    /\ faults' = faults

\* one call of the run against the provider, as the trace records it
\* (live: what the default branch of r pointed at when the call was made)
Call(op, r, t, o, ok) ==
    [op |-> op, repo |-> r, tag |-> t, object |-> o, ok |-> ok,
     live |-> IF r \in Repos THEN heads[r].sha ELSE "none"]

\* one call of find_tag_by_name, as the run observes it: the provider's
\* response and what the function did with it
Lookup(r, t, resp, got) ==
    [repo |-> r, tag |-> t, resp |-> resp,
     result |-> IF got.exc # "none" THEN "raise"
                ELSE IF got.ref.ref = <<>> THEN "None" ELSE "ref"]

\* main: teams = org.get_teams(), the filter, 'No teams found'
GetTeams ==
    /\ pc = "get_teams"
    /\ tag_teams' = TagTeams(OrgTeams, args_team)
    /\ pc' = IF tag_teams' = <<>> THEN "no_teams" ELSE "get_repos"
    /\ UNCHANGED <<provider, args, history, target_repos, cached_teams,
                   untagged_repos, ri, ti, found_tags, head, tag_obj>>

\* main: target_repos, the report of the repositories found (max() of an
\* empty list of names is a ValueError), find_repo_teams for each
GetRepos ==
    /\ pc = "get_repos"
    /\ target_repos' = TargetRepos(tag_teams)
    /\ IF target_repos' = <<>>
       THEN /\ pc' = "error"
            /\ UNCHANGED cached_teams
       ELSE /\ pc' = "analyze"
            /\ cached_teams' = CachedTeams(target_repos')
    /\ ri' = 1
    /\ ti' = 1
    /\ found_tags' = <<>>
    /\ untagged_repos' = EmptyDict
    /\ trace' = Append(trace, Call("get_repos", "", <<>>, NoTag, TRUE))
    /\ UNCHANGED <<provider, args, tag_teams, head, tag_obj,
                   run, lookups, faults, env, start>>

\* find_repos_missing_tags / find_tags_in_repo: the lookup of tag ti in
\* repository ri; after the last tag of a repository its entry of need is
\* set, after the last repository the analysis has returned
FindTag(resp) ==
    /\ pc = "analyze"
    /\ Fails(resp) \/ Answers(resp)
    /\ LET r == target_repos[ri]
           t == args_tag[ti]
           got == FindTagByName(tagrefs[r], t, resp)
           has_tags == FoundTagsAfter(found_tags, got.ref)
       IN  /\ lookups' = Append(lookups, Lookup(r, t, resp, got))
           /\ IF got.exc # "none"
              THEN /\ pc' = "error"
                   /\ UNCHANGED <<ri, ti, found_tags, untagged_repos>>
              ELSE IF ti < Len(args_tag)
              THEN /\ ti' = ti + 1
                   /\ found_tags' = has_tags
                   /\ UNCHANGED <<pc, ri, untagged_repos>>
              ELSE /\ untagged_repos' =
                          NeedAfter(untagged_repos, r, args_tag, has_tags)
                   /\ ti' = 1
                   /\ found_tags' = <<>>
                   /\ IF ri < Len(target_repos)
                      THEN ri' = ri + 1 /\ UNCHANGED pc
                      ELSE ri' = 1 /\ pc' = "analyzed"
    /\ UNCHANGED <<provider, args, tag_teams, target_repos, cached_teams,
                   head, tag_obj, run, trace, env, start>>

\* main: tagged_repos, 'no untagged repos -- nothing to do', the report of
\* the missing tags
CheckUntagged ==
    /\ pc = "analyzed"
    /\ pc' = IF untagged_repos.keys = <<>> THEN "nothing_to_do" ELSE "tag_repo"
    /\ ri' = 1
    /\ UNCHANGED <<provider, args, history, tag_teams, target_repos,
                   cached_teams, untagged_repos, ti, found_tags, head, tag_obj>>

\* the for loop of main after tag_repo returned for the ri-th key
NextRepo ==
    IF ri < Len(untagged_repos.keys)
    THEN ri' = ri + 1 /\ pc' = "tag_repo"
    ELSE ri' = ri /\ pc' = "done"

\* tag_repo: head = repo.get_git_ref("heads/{default_branch}"); in a dry
\* run the loop over the tags does nothing and tag_repo returns
\* (tag_repo and main catch nothing: whatever the call raises ends the run,
\* so one failing response stands for both kinds here and below)
TagRepoHead(resp) ==
    /\ pc = "tag_repo"
    /\ resp # "OtherException"
    /\ Fails(resp) \/ Answers(resp)
    /\ LET r == untagged_repos.keys[ri]
       IN  /\ trace' = Append(trace, Call("get_head", r, <<>>,
                                  GitTag(<<>>, heads[r], "none"), resp = "ok"))
           /\ IF resp # "ok"
              THEN pc' = "error" /\ UNCHANGED <<ri, ti, head>>
              ELSE /\ head' = heads[r]
                   /\ ti' = 1
                   /\ IF Noop(dry_run)
                      THEN NextRepo
                      ELSE pc' = "create_tag" /\ UNCHANGED ri
    /\ UNCHANGED <<provider, args, tag_teams, target_repos, cached_teams,
                   untagged_repos, found_tags, tag_obj,
                   run, lookups, env, start>>

\* faulty variant: the head of the default branch is read again for every tag
TagTargetLive(r) == heads[r]

\* tag_repo: the object a new tag points at, head.object of the ref read
\* at the top of tag_repo
TagTarget(r) == head

\* tag_repo: tag_obj = repo.create_git_tag(...) for the ti-th tag
CreateGitTag(resp) ==
    /\ pc = "create_tag"
    /\ resp # "OtherException"
    /\ Fails(resp) \/ Answers(resp)
    /\ LET r == untagged_repos.keys[ri]
           t == TagsFor(untagged_repos, r)[ti]
           o == GitTag(t, TagTarget(r), RunTagger)
       IN  /\ trace' = Append(trace, Call("create_git_tag", r, t, o, resp = "ok"))
           /\ IF resp # "ok"
              THEN pc' = "error" /\ UNCHANGED <<tagobjs, tag_obj>>
              ELSE /\ tagobjs' = [tagobjs EXCEPT ![r] = @ \cup {o}]
                   /\ tag_obj' = o
                   /\ pc' = "create_ref"
    /\ UNCHANGED <<heads, tagrefs, args, tag_teams, target_repos, cached_teams,
                   untagged_repos, ri, ti, found_tags, head,
                   run, lookups, env, start>>

\* tag_repo: repo.create_git_ref("refs/tags/{t}", tag_obj.sha), then the
\* next tag, or the next repository of main's loop
CreateGitRef(resp) ==
    /\ pc = "create_ref"
    /\ resp # "OtherException"
    /\ Fails(resp) \/ Answers(resp)
    /\ LET r == untagged_repos.keys[ri]
           t == TagsFor(untagged_repos, r)[ti]
           path == <<"refs", "tags">> \o t
           ok == resp = "ok" /\ ~RefExists(tagrefs[r], path)
       IN  /\ trace' = Append(trace, Call("create_git_ref", r, t, tag_obj, ok))
           /\ IF ~ok
              THEN pc' = "error" /\ UNCHANGED <<tagrefs, ri, ti>>
              ELSE /\ tagrefs' = [tagrefs EXCEPT ![r] = @ \cup {TagRef(t, tag_obj)}]
                   /\ IF ti < Len(TagsFor(untagged_repos, r))
                      THEN ti' = ti + 1 /\ pc' = "create_tag" /\ UNCHANGED ri
                      ELSE ti' = ti /\ NextRepo
    /\ UNCHANGED <<heads, tagobjs, args, tag_teams, target_repos, cached_teams,
                   untagged_repos, found_tags, head, tag_obj,
                   run, lookups, env, start>>

\* the command, having ended normally, is run again with the same
\* arguments: a new process, whose module state (cached_teams) starts empty
NextRun ==
    /\ pc \in {"done", "nothing_to_do"}
    /\ run = "first"
    /\ run' = "second"
    /\ start' = Snapshot(pc, tagrefs, tagobjs, env, faults)
    /\ pc' = "get_teams"
    /\ tag_teams' = <<>>
    /\ target_repos' = <<>>
    /\ cached_teams' = <<>>
    /\ untagged_repos' = EmptyDict
    /\ ri' = 1
    /\ ti' = 1
    /\ found_tags' = <<>>
    /\ head' = NoHead
    /\ tag_obj' = NoTag
    /\ trace' = <<>>
    /\ lookups' = <<>>
    /\ UNCHANGED <<provider, args, faults, env>>

\* another actor pushes to the default branch of r
EnvMoveHead(r, c) ==
    /\ faults + env < MaxDisturb
    /\ pc \notin Terminal
    /\ heads[r].sha # c
    /\ heads' = [heads EXCEPT ![r] = [sha |-> c, type |-> "commit"]]
    /\ env' = env + 1
    /\ UNCHANGED <<tagobjs, tagrefs, args, pc, locals,
                   run, trace, lookups, faults, start>>

\* another actor tags r with t
EnvCreateTag(r, t) ==
    /\ faults + env < MaxDisturb
    /\ pc \notin Terminal
    /\ ~RefExists(tagrefs[r], <<"refs", "tags">> \o t)
    /\ tagobjs' = [tagobjs EXCEPT ![r] = @ \cup {OtherTag(t)}]
    /\ tagrefs' = [tagrefs EXCEPT ![r] = @ \cup {TagRef(t, OtherTag(t))}]
    /\ env' = env + 1
    /\ UNCHANGED <<heads, args, pc, locals,
                   run, trace, lookups, faults, start>>

Next ==
    \/ GetTeams
    \/ GetRepos
    \/ \E resp \in Responses : FindTag(resp)
    \/ CheckUntagged
    \/ \E resp \in Responses : TagRepoHead(resp)
    \/ \E resp \in Responses : CreateGitTag(resp)
    \/ \E resp \in Responses : CreateGitRef(resp)
    \/ NextRun
    \/ \E r \in Repos, c \in Commits : EnvMoveHead(r, c)
    \/ \E r \in Repos, t \in TagNames : EnvCreateTag(r, t)

Spec == Init /\ [][Next]_vars

(* ------------------------------ properties ----------------------------- *)
\* the calls of the run recorded so far with operation op
CallsOf(op) == {i \in 1..Len(trace) : trace[i].op = op}

\* the run's writes: create_git_tag and create_git_ref calls
WriteCalls == CallsOf("create_git_tag") \cup CallsOf("create_git_ref")

\* refs/tags/{t} exists among refs
HasTag(refs, t) == \E x \in refs : x.ref = <<"refs", "tags">> \o t

\* nothing outside the run changed the provider, and no provider call
\* failed, since the run began
Undisturbed == env = start.env /\ faults = start.faults

\* C1 (idempotence): when a non-dry run has ended normally ("done" or
\* "nothing to do") and the command is run again with the same arguments,
\* no other actor changing the provider and no provider call failing in the
\* meantime, then the second run makes no create_git_tag / create_git_ref
\* call, its analysis keeps the missing-tag mapping empty and it never
\* enters tag_repo.
C1_Idempotence ==
    (/\ run = "second"
     /\ start.prev \in {"done", "nothing_to_do"}
     /\ ~dry_run
     /\ Undisturbed)
    => /\ WriteCalls = {}
       /\ CallsOf("get_head") = {}
       /\ untagged_repos = EmptyDict
       /\ pc \in {"get_teams", "get_repos", "analyze", "analyzed",
                  "nothing_to_do"}

\* C1 witness: the second run ends with nothing to do after a first run
\* that created tags
C1_Witness ==
    /\ run = "second"
    /\ start.prev = "done"
    /\ ~dry_run
    /\ Undisturbed
    /\ pc = "nothing_to_do"
    /\ \E r \in Repos : \E x \in tagrefs[r] : x.sha.tagger = RunTagger

\* C2 (completeness): when a non-dry run has finished without error, every
\* requested tag is found by find_tag_by_name on every repository of the
\* matched teams.
C2_Completeness ==
    (pc \in {"done", "nothing_to_do"} /\ ~dry_run)
    => \A i \in 1..Len(target_repos) : \A j \in 1..Len(args_tag) :
          FindTagByName(tagrefs[target_repos[i]], args_tag[j], "ok").ref.ref
              = <<"refs", "tags">> \o args_tag[j]

\* C2 witness: a run over several repositories ended after creating refs
C2_Witness ==
    /\ pc = "done"
    /\ ~dry_run
    /\ Len(target_repos) >= 2
    /\ \E i \in CallsOf("create_git_ref") : trace[i].ok
    /\ \E r \in Repos : start.refs[r] # {}

\* C3 (dry-run purity): in a dry run no create_git_tag and no
\* create_git_ref call is made, and as long as no other actor has changed
\* the provider its tag objects and tag refs are those of the start of the
\* run.
C3_DryRunPurity ==
    dry_run =>
        /\ WriteCalls = {}
        /\ env = start.env => (tagrefs = start.refs /\ tagobjs = start.objs)

\* C3 witness: a dry run went through tag_repo for a repository with
\* missing tags and ended
C3_Witness ==
    /\ dry_run
    /\ pc = "done"
    /\ env = start.env
    /\ \E i \in CallsOf("get_head") : Len(TagsFor(untagged_repos, trace[i].repo)) >= 2

\* find_tag_by_name returned None / a ref for tag t of repository r in
\* this run's analysis
LookedAbsent(r, t) ==
    \E i \in 1..Len(lookups) :
        lookups[i].repo = r /\ lookups[i].tag = t /\ lookups[i].result = "None"

LookedPresent(r, t) ==
    \E i \in 1..Len(lookups) :
        lookups[i].repo = r /\ lookups[i].tag = t /\ lookups[i].result = "ref"

\* C4 (minimality): every create_git_tag / create_git_ref call of a run is
\* for a (repository, tag) pair that the analysis of the same run found
\* absent, no such call is made for a pair that a lookup of the run found
\* present, and a repository for which the analysis found no tag absent
\* gets no write and no lookup of its default-branch head.
C4_Minimality ==
    /\ \A i \in WriteCalls : LookedAbsent(trace[i].repo, trace[i].tag)
    /\ \A i \in WriteCalls : ~LookedPresent(trace[i].repo, trace[i].tag)
    /\ \A i \in WriteCalls \cup CallsOf("get_head") :
          \E j \in 1..Len(args_tag) : LookedAbsent(trace[i].repo, args_tag[j])

\* C5 (isolation): when a non-dry run has ended and one of its
\* create_git_tag / create_git_ref calls on repository r1 failed, every
\* missing tag of every other repository of the missing-tag mapping has
\* had its create_git_tag call made.
C5_Isolation ==
    (pc \in Terminal /\ ~dry_run)
    => \A i \in WriteCalls :
          ~trace[i].ok
          => \A k \in Range(untagged_repos.keys) \ {trace[i].repo} :
                \A j \in 1..Len(TagsFor(untagged_repos, k)) :
                   \E m \in CallsOf("create_git_tag") :
                      /\ trace[m].repo = k
                      /\ trace[m].tag = TagsFor(untagged_repos, k)[j]

\* C6 (lookup failure is not absence): whenever the provider's get_git_ref
\* call of a tag lookup fails, find_tag_by_name raises and does not return
\* None.
C6_LookupPropagates ==
    \A i \in 1..Len(lookups) :
        lookups[i].resp # "ok" => lookups[i].result = "raise"

\* C7 (no team matches): when no team of the organisation has a requested
\* name, the run stops with 'No teams found' right after listing the teams:
\* no team's repositories are fetched, no tag is looked up and no
\* create_git_tag / create_git_ref call is made.
C7_NoTeamsAborts ==
    (/\ \A i \in 1..Len(OrgTeams) : OrgTeams[i].name \notin Range(args_team)
     /\ pc # "get_teams")
    => /\ pc = "no_teams"
       /\ CallsOf("get_repos") = {}
       /\ target_repos = <<>>
       /\ lookups = <<>>
       /\ WriteCalls = {}
       /\ CallsOf("get_head") = {}

\* C7 witness: the run was aborted for want of a matching team
C7_Witness == pc = "no_teams" /\ args_team = <<"Ghost Team">>

\* every repository of the matched teams carried every requested tag when
\* the run began
AllTaggedAtStart ==
    \A i \in 1..Len(target_repos) : \A j \in 1..Len(args_tag) :
        HasTag(start.refs[target_repos[i]], args_tag[j])

\* C8 (nothing to do): when every target repository carried every requested
\* tag as the run began and no provider call of the run failed, the
\* missing-tag mapping stays empty, the run goes from the analysis to the
\* 'nothing to do' exit and nowhere else, and it makes no write and no
\* lookup of a default-branch head.
C8_NothingToDo ==
    (/\ pc \notin {"get_teams", "get_repos"}
     /\ target_repos # <<>>
     /\ AllTaggedAtStart
     /\ faults = start.faults)
    => /\ untagged_repos = EmptyDict
       /\ pc \in {"analyze", "analyzed", "nothing_to_do"}
       /\ WriteCalls = {}
       /\ CallsOf("get_head") = {}

\* C8 witness: a first run over two repositories that were fully tagged
\* ended with nothing to do
C8_Witness ==
    /\ run = "first"
    /\ pc = "nothing_to_do"
    /\ Len(target_repos) >= 2
    /\ AllTaggedAtStart
    /\ faults = 0

\* the requested tags that repository r lacks, in the caller's order
Lacking(r) ==
    LET Lacks(t) == ~HasTag(tagrefs[r], t)
    IN  SelectSeq(args_tag, Lacks)

\* C9 (analyzer result): when find_repos_missing_tags has returned, the
\* provider having answered every lookup and not having been changed
\* meanwhile, a lookup returned None exactly for the absent tags, the keys
\* of the mapping are exactly the repositories lacking a requested tag,
\* each once, and each one's list is the requested tags it lacks in the
\* caller's order.
C9_AnalyzerResult ==
    (pc = "analyzed" /\ Undisturbed)
    => /\ \A i \in 1..Len(lookups) :
             (lookups[i].result = "None")
                 <=> ~HasTag(tagrefs[lookups[i].repo], lookups[i].tag)
       /\ Range(untagged_repos.keys) =
             {r \in Range(target_repos) : Lacking(r) # <<>>}
       /\ \A i, j \in 1..Len(untagged_repos.keys) :
             untagged_repos.keys[i] = untagged_repos.keys[j] => i = j
       /\ \A r \in Range(untagged_repos.keys) :
             TagsFor(untagged_repos, r) = Lacking(r)

\* C9 witness: widget has v1.0 only, gadget has no tag, the request is
\* [v1.0, v1.1]: {widget: [v1.1], gadget: [v1.0, v1.1]}
C9_Witness ==
    /\ pc = "analyzed"
    /\ Undisturbed
    /\ target_repos = <<"acme/widget", "acme/gadget">>
    /\ args_tag = << <<"v1.0">>, <<"v1.1">> >>
    /\ untagged_repos.keys = <<"acme/widget", "acme/gadget">>
    /\ TagsFor(untagged_repos, "acme/widget") = << <<"v1.1">> >>
    /\ TagsFor(untagged_repos, "acme/gadget") = << <<"v1.0">>, <<"v1.1">> >>

\* the reads of the default-branch head of the repository of call i that
\* precede it
HeadReadsBefore(i) ==
    {j \in CallsOf("get_head") : j < i /\ trace[j].repo = trace[i].repo}

\* C10 (single head capture): the default-branch head of a repository is
\* read once, before the first tag object is created on it, and every tag
\* object created targets the SHA and type read then, whatever the branch
\* points at by the time of the creation.
C10_SingleHeadCapture ==
    /\ \A r \in Repos :
          Cardinality({j \in CallsOf("get_head") : trace[j].repo = r}) <= 1
    /\ \A i \in CallsOf("create_git_tag") :
          /\ Cardinality(HeadReadsBefore(i)) = 1
          /\ \A j \in HeadReadsBefore(i) :
                /\ trace[j].ok
                /\ trace[i].object.object = trace[j].object.object
                /\ trace[i].object.type = trace[j].object.type

\* C10 witness: two tag objects were created on a repository whose default
\* branch was pushed to between the two creations
C10_Witness ==
    \E i1, i2 \in CallsOf("create_git_tag") :
        /\ i1 < i2
        /\ trace[i1].ok /\ trace[i2].ok
        /\ trace[i1].repo = trace[i2].repo
        /\ trace[i1].live = trace[i1].object.object
        /\ trace[i2].live # trace[i2].object.object

(* ------------------- selection under reordered --team ------------------ *)
\* longest --team list given on the command line
MaxTeams == 2

\* the names a --team option is given: the organisation's teams and one
\* that is no team of it
TeamNames == {"Core", "Aux", "Docs", "Ghost Team"}

\* --team lists in every order (argparse: required, append)
TeamLists == UNION { [1..n -> TeamNames] : n \in 1..MaxTeams }

\* main started with any of the --team lists, one --tag, nothing tagged yet
Init11 ==
    /\ heads = [r \in Repos |-> [sha |-> "c1", type |-> "commit"]]
    /\ tagrefs = [r \in Repos |-> {}]
    /\ tagobjs = [r \in Repos |-> {}]
    /\ args_team \in TeamLists
    /\ args_tag = << <<"v1.0">> >>
    /\ dry_run = FALSE
    /\ pc = "get_teams"
    /\ tag_teams = <<>>
    /\ target_repos = <<>>
    /\ cached_teams = <<>>
    /\ untagged_repos = EmptyDict
    /\ ri = 1
    /\ ti = 1
    /\ found_tags = <<>>
    /\ head = NoHead
    /\ tag_obj = NoTag
    /\ run = "first"
    /\ trace = <<>>
    /\ lookups = <<>>
    /\ faults = 0
    /\ env = 0
    /\ start = Snapshot("none", tagrefs, tagobjs, 0, 0)

Spec11 == Init11 /\ [][Next]_vars

\* the same list of names in every order
Reorderings(names) ==
    {[i \in 1..Len(names) |-> names[f[i]]] : f \in Permutations(1..Len(names))}

\* the repositories of the organisation's teams that have one of the names
MemberRepos(names) ==
    UNION {Range(OrgTeams[i].repos) :
             i \in {j \in 1..Len(OrgTeams) : OrgTeams[j].name \in Range(names)}}

\* C11 (determinism of selection): once the run has fetched its target
\* repositories, their set is the set the selection yields for every
\* reordering of the --team list, namely the repositories of the teams
\* named in it; and a run stopped with 'No teams found' would have been
\* stopped for every reordering.
C11_SelectionDeterminism ==
    /\ pc \notin {"get_teams", "get_repos", "no_teams"}
       => \A p \in Reorderings(args_team) :
             /\ Range(target_repos) = Range(TargetRepos(TagTeams(OrgTeams, p)))
             /\ Range(target_repos) = MemberRepos(p)
    /\ pc = "no_teams"
       => \A p \in Reorderings(args_team) : TagTeams(OrgTeams, p) = <<>>

\* C11 witness: the teams were requested in the reverse of the
\* organisation's order and both repositories were selected
C11_Witness ==
    /\ args_team = <<"Aux", "Core">>
    /\ pc = "analyze"
    /\ Range(target_repos) = Repos

(* ------------------------ races, repeats, ordering --------------------- *)
\* the create_git_ref calls answered 422 because another actor created the
\* tag after the run's analysis had found it absent
RacedRefCalls ==
    {i \in CallsOf("create_git_ref") :
        /\ ~trace[i].ok
        /\ faults = start.faults
        /\ LookedAbsent(trace[i].repo, trace[i].tag)
        /\ \E x \in tagrefs[trace[i].repo] \ start.refs[trace[i].repo] :
              /\ x.ref = <<"refs", "tags">> \o trace[i].tag
              /\ x.sha.tagger = "other"}

\* C12 (race with an external tagger): when the run has ended and one of
\* its create_git_ref calls was answered 'already exists' because another
\* actor had created the tag after the analysis, every missing tag of every
\* repository of the missing-tag mapping has had its create_git_tag call
\* made.
C12_RaceIsSoftFailure ==
    (pc \in Terminal /\ RacedRefCalls # {})
    => \A k \in Range(untagged_repos.keys) :
          \A j \in 1..Len(untagged_repos.need[k]) :
             \E m \in CallsOf("create_git_tag") :
                /\ trace[m].repo = k
                /\ trace[m].tag = untagged_repos.need[k][j]

\* C13 (at most one creation per pair): in a run, no two create_git_tag
\* calls that succeeded, and no two create_git_ref calls that succeeded,
\* are for the same repository and tag name.
C13_OneCreationPerPair ==
    \A op \in {"create_git_tag", "create_git_ref"} :
       \A i, j \in CallsOf(op) :
          (/\ trace[i].ok /\ trace[j].ok
           /\ trace[i].repo = trace[j].repo
           /\ trace[i].tag = trace[j].tag)
          => i = j

\* the calls op of the run on repository r up to the i-th call of the trace
CallsUpTo(op, r, i) == {j \in CallsOf(op) : j <= i /\ trace[j].repo = r}

\* C14 (tag object, then ref): every create_git_ref call comes right after
\* the successful create_git_tag call for the same repository and tag,
\* whose object has the message "Version {t}", and the ref it creates is
\* refs/tags/{t} pointing at that object; the n-th create_git_tag and the
\* n-th create_git_ref call on a repository are for the n-th tag of its
\* missing list; so the refs created never outnumber the tag objects
\* created.
C14_TagThenRef ==
    /\ \A i \in CallsOf("create_git_ref") :
          /\ i > 1
          /\ trace[i - 1].op = "create_git_tag"
          /\ trace[i - 1].ok
          /\ trace[i - 1].repo = trace[i].repo
          /\ trace[i - 1].tag = trace[i].tag
          /\ trace[i - 1].object = trace[i].object
          /\ trace[i].object.tag = trace[i].tag
          /\ trace[i].object.message = <<"Version">> \o trace[i].tag
          /\ trace[i].ok =>
                \E x \in tagrefs[trace[i].repo] :
                   /\ x.ref = <<"refs", "tags">> \o trace[i].tag
                   /\ x.sha = trace[i].object
    /\ \A op \in {"create_git_tag", "create_git_ref"} :
          \A i \in CallsOf(op) :
             LET n == Cardinality(CallsUpTo(op, trace[i].repo, i))
             IN  /\ trace[i].repo \in Range(untagged_repos.keys)
                 /\ n <= Len(untagged_repos.need[trace[i].repo])
                 /\ trace[i].tag = untagged_repos.need[trace[i].repo][n]
    /\ Cardinality({i \in CallsOf("create_git_ref") : trace[i].ok})
          <= Cardinality({i \in CallsOf("create_git_tag") : trace[i].ok})

\* C14 witness: two different tags were created, object and ref, on one
\* repository
C14_Witness ==
    \E i, j \in CallsOf("create_git_ref") :
        /\ i < j
        /\ trace[i].ok /\ trace[j].ok
        /\ trace[i].repo = trace[j].repo
        /\ trace[i].tag # trace[j].tag

====
